---- MODULE Spec2Model ----
(***************************************************************************)
(* PPE detection backend: the upload-video handler with the video          *)
(* pipeline (detection.py detect_video), the process-wide alarm flag, the  *)
(* /ws/camera handler and list-videos (main.py).                           *)
(*                                                                         *)
(* The handlers are coroutines of one asyncio event loop: a coroutine      *)
(* keeps the loop from the moment it is resumed until it reaches an await  *)
(* or returns.  `loop` is the coroutine that holds the event loop.         *)
(***************************************************************************)
EXTENDS Integers, Sequences, FiniteSets, TLC

\* ---------------------------------------------------------------- bounds
MaxFrames == 2      \* frames the source videos of one run deliver at most
MaxBoxes == 2       \* detections the model reports per frame at most
MaxUploads == 2     \* upload requests submitted in one run
MaxMsgs == 3        \* messages a client sends on the camera socket
MaxFiles == 3       \* files placed in the outputs directory (listing runs)

\* ------------------------------------------------------- program constants
\* the upload clients that can have a request in flight at the same time
Requests == {"r1", "r2"}

\* labels of the trained model (detection.py docstring), a sample that holds
\* every violation label and an ordinary one
ClassNames == {"Hardhat", "NO-Hardhat", "NO-Mask", "NO-Safety Vest"}

violation_classes == {"NO-Hardhat", "NO-Mask", "NO-Safety Vest"}

is_violation_substring(class_name) ==
    class_name \in violation_classes \cup {"Hardhat"}

is_violation(class_name) == class_name \in violation_classes

codecs ==
    << [codec |-> "avc1", ext |-> ".mp4"],
       [codec |-> "H264", ext |-> ".mp4"],
       [codec |-> "mp4v", ext |-> ".mp4"],
       [codec |-> "XVID", ext |-> ".avi"] >>

\* the suspension points of upload_video: its body has no await
UploadAwaitsInLoop == {"read"}

UploadAwaits == {}

\* the first 8 characters of uuid4(), one per request
FileIds == <<"0a1b2c3d", "1b2c3d4e", "2c3d4e5f", "3d4e5f60", "4e5f6071">>

\* ------------------------------------------------------------------ paths
\* a path is <<directory, stem, extension>>; str.replace(old, new) replaces
\* every occurrence
Replace(path, old, new) ==
    [i \in DOMAIN path |-> IF path[i] = old THEN new ELSE path[i]]

PathName(path) == <<path[2], path[3]>>

OutputFilename(stem) == <<stem, ".mp4">>

OutputPath(stem) == <<"outputs", stem, ".mp4">>

TempOutput(output_path, ext) ==
    Replace(Replace(output_path, ".mp4", ext), ".avi", ext)

\* ------------------------------------------------------------------ state
VARIABLES
    alarm_active,   \* main.py global
    loop,           \* coroutine holding the event loop, or "free"
    up,             \* per upload request: position and locals
    rsp,            \* per upload request: the response returned
    disk,           \* file names present in OUTPUT_DIR
    uuids,          \* upload requests started so far (fresh file ids)
    fed,            \* frames the source videos have delivered so far
    ws,             \* the /ws/camera handler and its connection
    listing         \* the last list-videos response

vars == <<alarm_active, loop, up, rsp, disk, uuids, fed, ws, listing>>

ZeroStats == [c \in violation_classes |-> 0]

ZeroSeen == [c \in ClassNames |-> 0]

IdleRequest ==
    [ pc |-> "idle",
      stem |-> "",
      output_path |-> <<>>,
      out |-> 0,
      frame_count |-> 0,
      violation_frames |-> 0,
      total_violations |-> 0,
      violation_detected |-> FALSE,
      violation_stats |-> ZeroStats,
      boxes |-> <<>>,
      frame_violations |-> <<>>,
      \* what the environment did during this request
      nread |-> 0,
      seen |-> ZeroSeen,
      written |-> <<>>,
      alarm_calls |-> 0,
      entry_alarm |-> FALSE,
      fault |-> "none" ]

NoResponse ==
    [ code |-> 0, status |-> "none", message |-> "",
      frames_processed |-> 0, violations_detected |-> FALSE,
      violation_frames |-> 0, violation_count |-> 0,
      violation_stats |-> ZeroStats,
      output_path |-> <<>>, output_file |-> <<>>, download_url |-> <<>>,
      alarm_triggered |-> FALSE ]

NoListing == [total_videos |-> 0, videos |-> <<>>]

\* no camera client yet
WsOff ==
    [ pc |-> "off",         \* position of websocket_camera
      inbox |-> <<>>,       \* text frames the client sent, not yet received
      gone |-> FALSE,       \* the client has closed the socket
      data |-> <<>>,        \* the message being handled
      got |-> <<>>,         \* messages received, in order
      replies |-> <<>>,     \* replies sent, in order
      dropped |-> <<>> ]    \* messages finished without a reply, and why

Init ==
    /\ alarm_active = FALSE
    /\ loop = "free"
    /\ up = [r \in Requests |-> IdleRequest]
    /\ rsp = [r \in Requests |-> NoResponse]
    /\ disk = {}
    /\ uuids = 0
    /\ fed = 0
    /\ ws = WsOff
    /\ listing = NoListing

\* ------------------------------------------------------------- event loop
\* a coroutine may run a step when it holds the loop, or when the loop is
\* free and it is suspended at one of its awaits
MayRun(r) == loop = r \/ (loop = "free" /\ up[r].pc \in UploadAwaits)

Holds(r, pc) == IF pc \in UploadAwaits \cup {"done"} THEN "free" ELSE r

\* ---------------------------------------------------------- upload-video
\* a client posts a video: the request waits for the event loop
Submit(r) ==
    /\ up[r].pc = "idle"
    /\ uuids + Cardinality({q \in Requests : up[q].pc = "pending"}) < MaxUploads
    /\ up' = [up EXCEPT ![r].pc = "pending"]
    /\ UNCHANGED <<alarm_active, loop, rsp, disk, uuids, fed, ws, listing>>

AlarmAtEntryKept(flag) == flag

AlarmAtEntry(flag) == FALSE

\* main.py 96-106: the flag is reset, the file names are made
Enter(r) ==
    /\ up[r].pc = "pending"
    /\ loop = "free"
    /\ alarm_active' = AlarmAtEntry(alarm_active)
    /\ uuids' = uuids + 1
    /\ up' = [up EXCEPT ![r] = [IdleRequest EXCEPT !.pc = "save",
                                                   !.stem = FileIds[uuids + 1],
                                                   !.entry_alarm = alarm_active]]
    /\ loop' = Holds(r, "save")
    /\ UNCHANGED <<rsp, disk, fed, ws, listing>>

\* main.py 108-110: the upload is copied to UPLOAD_DIR (open/copy may raise)
Save(r) ==
    /\ up[r].pc = "save"
    /\ MayRun(r)
    /\ \E ok \in BOOLEAN :
         up' = [up EXCEPT ![r].pc = IF ok THEN "open" ELSE "except",
                          ![r].fault = IF ok THEN "none" ELSE "save"]
    /\ loop' = Holds(r, up'[r].pc)
    /\ UNCHANGED <<alarm_active, rsp, disk, uuids, fed, ws, listing>>

\* detection.py 43-46: cv2.VideoCapture, raise when it is not opened
OpenCapture(r) ==
    /\ up[r].pc = "open"
    /\ MayRun(r)
    /\ \E opened \in BOOLEAN :
         up' = [up EXCEPT ![r].pc = IF opened THEN "codec" ELSE "except",
                          ![r].fault = IF opened THEN "none" ELSE "unreadable"]
    /\ loop' = Holds(r, up'[r].pc)
    /\ UNCHANGED <<alarm_active, rsp, disk, uuids, fed, ws, listing>>

\* detection.py 65-79: the first codec of the list whose writer opens
FirstOpening(works) ==
    IF works = {} THEN 0
    ELSE CHOOSE i \in works : \A j \in works : i <= j

\* detection.py 56-82: the codec ladder; `works` are the codecs this build of
\* the video library can open a writer for
OpenWriter(r) ==
    /\ up[r].pc = "codec"
    /\ MayRun(r)
    /\ \E works \in SUBSET DOMAIN codecs :
         LET k == FirstOpening(works)
             path0 == OutputPath(up[r].stem)
         IN  up' = [up EXCEPT
                    ![r].pc = IF k = 0 THEN "except" ELSE "read",
                    ![r].fault = IF k = 0 THEN "no_codec" ELSE "none",
                    ![r].out = k,
                    ![r].output_path =
                        IF k = 0 THEN path0 ELSE TempOutput(path0, codecs[k].ext)]
    /\ disk' = IF up'[r].out = 0 THEN disk
               ELSE disk \cup {PathName(up'[r].output_path)}
    /\ loop' = Holds(r, up'[r].pc)
    /\ UNCHANGED <<alarm_active, rsp, uuids, fed, ws, listing>>

\* detection.py 96-99: cap.read(); the frame is the next one of the source
ReadFrame(r) ==
    /\ up[r].pc = "read"
    /\ MayRun(r)
    /\ \E ret \in BOOLEAN :
         /\ ret => fed < MaxFrames
         /\ up' = [up EXCEPT ![r].pc = IF ret THEN "predict" ELSE "release",
                             ![r].nread = IF ret THEN @ + 1 ELSE @]
         /\ fed' = IF ret THEN fed + 1 ELSE fed
    /\ loop' = Holds(r, up'[r].pc)
    /\ UNCHANGED <<alarm_active, rsp, disk, uuids, ws, listing>>

\* the detections of one frame: class names in the order the model reports
BoxLists == UNION {[1..n -> ClassNames] : n \in 0..MaxBoxes}

BumpOncePerFrame(stats, frame_violations, class_name) ==
    IF \E i \in DOMAIN frame_violations : frame_violations[i] = class_name
    THEN stats
    ELSE [stats EXCEPT ![class_name] = @ + 1]

Bump(stats, frame_violations, class_name) ==
    [stats EXCEPT ![class_name] = @ + 1]

\* detection.py 115-131: the loop over the boxes of a frame
RECURSIVE ScanBoxes(_, _)
ScanBoxes(boxes, st) ==
    IF boxes = <<>> THEN st
    ELSE LET class_name == Head(boxes)
             hit ==
                 [ violation_detected |-> TRUE,
                   total_violations |-> st.total_violations + 1,
                   violation_stats |->
                       Bump(st.violation_stats, st.frame_violations, class_name),
                   frame_violations |-> Append(st.frame_violations, class_name),
                   alarm_calls |-> st.alarm_calls + 1 ]
         IN  ScanBoxes(Tail(boxes), IF is_violation(class_name) THEN hit ELSE st)

Tally(seen, boxes) ==
    [c \in ClassNames |->
        seen[c] + Cardinality({i \in DOMAIN boxes : boxes[i] = c})]

\* main.py 58-61
trigger_alarm == TRUE

\* detection.py 101-148: predict, scan the boxes, count the frame
Predict(r) ==
    /\ up[r].pc = "predict"
    /\ MayRun(r)
    /\ \/ /\ up' = [up EXCEPT ![r].pc = "except", ![r].fault = "predict"]
          /\ UNCHANGED alarm_active
       \/ \E boxes \in BoxLists :
            LET st == ScanBoxes(boxes,
                        [ violation_detected |-> up[r].violation_detected,
                          total_violations |-> up[r].total_violations,
                          violation_stats |-> up[r].violation_stats,
                          frame_violations |-> <<>>,
                          alarm_calls |-> 0 ])
            IN  /\ up' = [up EXCEPT
                           ![r].pc = "write",
                           ![r].boxes = boxes,
                           ![r].seen = Tally(@, boxes),
                           ![r].violation_detected = st.violation_detected,
                           ![r].total_violations = st.total_violations,
                           ![r].violation_stats = st.violation_stats,
                           ![r].frame_violations = st.frame_violations,
                           ![r].alarm_calls = @ + st.alarm_calls,
                           ![r].violation_frames =
                               IF st.frame_violations # <<>> THEN @ + 1 ELSE @]
                /\ alarm_active' =
                     IF st.alarm_calls > 0 THEN trigger_alarm ELSE alarm_active
    /\ loop' = Holds(r, up'[r].pc)
    /\ UNCHANGED <<rsp, disk, uuids, fed, ws, listing>>

Range(s) == {s[i] : i \in DOMAIN s}

OutWriteFlagged(written, frame) ==
    IF frame.banner = {} THEN written ELSE Append(written, frame)

OutWrite(written, frame) == Append(written, frame)

\* detection.py 150-155: frame readout, out.write, frame_count += 1
WriteFrame(r) ==
    /\ up[r].pc = "write"
    /\ MayRun(r)
    /\ up' = [up EXCEPT
               ![r].pc = "read",
               ![r].written =
                   OutWrite(@, [ src |-> up[r].nread - 1,
                                 label |-> up[r].frame_count,
                                 banner |-> Range(up[r].frame_violations) ]),
               ![r].frame_count = @ + 1,
               ![r].boxes = <<>>,
               ![r].frame_violations = <<>>]
    /\ loop' = Holds(r, up'[r].pc)
    /\ UNCHANGED <<alarm_active, rsp, disk, uuids, fed, ws, listing>>

\* detection.py 162-163: both streams are released; whether the container
\* file is on disk afterwards is the video library's doing
Release(r) ==
    /\ up[r].pc = "release"
    /\ MayRun(r)
    /\ up' = [up EXCEPT ![r].pc = "verify"]
    /\ \E kept \in BOOLEAN :
         disk' = IF kept THEN disk ELSE disk \ {PathName(up[r].output_path)}
    /\ loop' = Holds(r, up'[r].pc)
    /\ UNCHANGED <<alarm_active, rsp, uuids, fed, ws, listing>>

OutputVerifiedAlways(output_path) == TRUE

OutputVerified(output_path) == PathName(output_path) \in disk

\* detection.py 165-167
Verify(r) ==
    /\ up[r].pc = "verify"
    /\ MayRun(r)
    /\ up' = [up EXCEPT
               ![r].pc = IF OutputVerified(up[r].output_path)
                         THEN "respond" ELSE "except",
               ![r].fault = IF OutputVerified(up[r].output_path)
                            THEN "none" ELSE "no_output"]
    /\ loop' = Holds(r, up'[r].pc)
    /\ UNCHANGED <<alarm_active, rsp, disk, uuids, fed, ws, listing>>

\* detection.py 181-188 and main.py 119-128
Respond(r) ==
    /\ up[r].pc = "respond"
    /\ MayRun(r)
    /\ rsp' = [rsp EXCEPT ![r] =
                [ code |-> 200, status |-> "success", message |-> "",
                  frames_processed |-> up[r].frame_count,
                  violations_detected |-> up[r].violation_detected,
                  violation_frames |-> up[r].violation_frames,
                  violation_count |-> up[r].total_violations,
                  violation_stats |-> up[r].violation_stats,
                  output_path |-> up[r].output_path,
                  output_file |-> OutputFilename(up[r].stem),
                  download_url |-> <<"outputs">> \o OutputFilename(up[r].stem),
                  alarm_triggered |-> alarm_active ]]
    /\ up' = [up EXCEPT ![r] = [IdleRequest EXCEPT !.pc = "done"]]
    /\ loop' = Holds(r, "done")
    /\ UNCHANGED <<alarm_active, disk, uuids, fed, ws, listing>>

\* the text of the exception raised at each place
Message(fault) ==
    CASE fault = "unreadable" -> "Cannot open video"
      [] fault = "no_codec" -> "Could not initialize video writer with any codec!"
      [] fault = "no_output" -> "Output video not created"
      [] OTHER -> "library error"

\* main.py 130-137
Except(r) ==
    /\ up[r].pc = "except"
    /\ MayRun(r)
    /\ rsp' = [rsp EXCEPT ![r] =
                [NoResponse EXCEPT !.code = 500, !.status = "error",
                                   !.message = Message(up[r].fault)]]
    /\ up' = [up EXCEPT ![r] = [IdleRequest EXCEPT !.pc = "done",
                                                   !.fault = up[r].fault]]
    /\ loop' = Holds(r, "done")
    /\ UNCHANGED <<alarm_active, disk, uuids, fed, ws, listing>>

\* the client has its response
Collect(r) ==
    /\ up[r].pc = "done"
    /\ up' = [up EXCEPT ![r] = IdleRequest]
    /\ rsp' = [rsp EXCEPT ![r] = NoResponse]
    /\ UNCHANGED <<alarm_active, loop, disk, uuids, fed, ws, listing>>

\* ------------------------------------------------------------- /ws/camera
\* a text frame is its comma separated parts; the last part stands for what
\* base64.b64decode and cv2.imdecode make of it
Bodies == {"bad_base64", "not_image", "image"}

Payloads == {<<b>> : b \in Bodies} \cup {<<"data:image/jpeg;base64", b>> : b \in Bodies}

\* main.py 149-150
StripPrefix(data) == IF Len(data) > 1 THEN data[2] ELSE data[1]

\* main.py 152-157 and 175-177: what the handler does with a payload whose
\* image cannot be decoded
OnUndecodableError(body) == "error_reply"

OnUndecodable(body) == "continue"

SendJsonAndAlert(replies, response) == Append(Append(replies, response), response)

SendJson(replies, response) == Append(replies, response)

\* the browser opens the socket; main.py 141
WsAccept ==
    /\ ws.pc = "off"
    /\ loop = "free"
    /\ ws' = [ws EXCEPT !.pc = "receive"]
    /\ UNCHANGED <<alarm_active, loop, up, rsp, disk, uuids, fed, listing>>

\* the client sends one frame
ClientSend ==
    /\ ws.pc # "off"
    /\ ~ws.gone
    /\ Len(ws.got) + Len(ws.inbox) < MaxMsgs
    /\ \E data \in Payloads : ws' = [ws EXCEPT !.inbox = Append(@, data)]
    /\ UNCHANGED <<alarm_active, loop, up, rsp, disk, uuids, fed, listing>>

\* the client closes the socket
ClientClose ==
    /\ ws.pc # "off"
    /\ ~ws.gone
    /\ ws' = [ws EXCEPT !.gone = TRUE]
    /\ UNCHANGED <<alarm_active, loop, up, rsp, disk, uuids, fed, listing>>

\* main.py 146: receive_text resumes with the next frame, or raises
\* WebSocketDisconnect (main.py 179-180) when the socket is closed
WsReceive ==
    /\ ws.pc = "receive"
    /\ loop = "free"
    /\ \/ /\ ws.inbox # <<>>
          /\ ws' = [ws EXCEPT !.pc = "process",
                              !.data = Head(ws.inbox),
                              !.inbox = Tail(@),
                              !.got = Append(@, Head(ws.inbox))]
          /\ loop' = "ws"
       \/ /\ ws.inbox = <<>>
          /\ ws.gone
          /\ ws' = [ws EXCEPT !.pc = "closed"]
          /\ loop' = "free"
    /\ UNCHANGED <<alarm_active, up, rsp, disk, uuids, fed, listing>>

\* main.py 148-168: strip the prefix, decode, detect, encode.  Anything the
\* libraries raise is caught at 175-177
WsProcess ==
    /\ ws.pc = "process"
    /\ loop = "ws"
    /\ LET body == StripPrefix(ws.data)
           k == Len(ws.got)
       IN  IF body # "image"
           THEN IF OnUndecodable(body) = "continue"
                THEN /\ ws' = [ws EXCEPT !.pc = "receive", !.data = <<>>,
                                         !.dropped = Append(@, [id |-> k, why |-> body])]
                     /\ loop' = "free"
                ELSE /\ ws' = [ws EXCEPT !.pc = "send", !.data = <<"error">>]
                     /\ loop' = "ws"
           ELSE \/ /\ ws' = [ws EXCEPT !.pc = "send"]
                   /\ loop' = "ws"
                \/ /\ ws' = [ws EXCEPT !.pc = "receive", !.data = <<>>,
                                       !.dropped = Append(@, [id |-> k, why |-> "raised"])]
                   /\ loop' = "free"
    /\ UNCHANGED <<alarm_active, up, rsp, disk, uuids, fed, listing>>

\* main.py 170: send_json; on a socket the client has closed it raises and
\* the frame is given up at 175-177
WsSend ==
    /\ ws.pc = "send"
    /\ loop = "ws"
    /\ LET k == Len(ws.got)
           kind == IF ws.data = <<"error">> THEN "error" ELSE "frame"
       IN  IF ws.gone
           THEN ws' = [ws EXCEPT !.pc = "receive", !.data = <<>>,
                                 !.dropped = Append(@, [id |-> k, why |-> "send_failed"])]
           ELSE ws' = [ws EXCEPT !.pc = "receive", !.data = <<>>,
                                 !.replies = SendJson(@, [id |-> k, kind |-> kind])]
    /\ loop' = "free"
    /\ UNCHANGED <<alarm_active, up, rsp, disk, uuids, fed, listing>>

WsNext ==
    \/ WsAccept
    \/ ClientSend
    \/ ClientClose
    \/ WsReceive
    \/ WsProcess
    \/ WsSend

WsSpec == Init /\ [][WsNext]_vars

\* ------------------------------------------------------------ list-videos
\* st_ctime as datetime.fromtimestamp gives it; the sample lies within one
\* hour of one day, so the date and hour of the ISO text are a common prefix
Stamps == [minute : {9, 10}, second : {5, 10}, microsecond : {0, 500000}]

Digit(d) == 48 + d

TwoDigitsUnpadded(n) ==
    IF n < 10 THEN <<Digit(n)>> ELSE <<Digit(n \div 10), Digit(n % 10)>>

TwoDigits(n) == <<Digit(n \div 10), Digit(n % 10)>>

SixDigits(n) ==
    << Digit(n \div 100000), Digit((n \div 10000) % 10), Digit((n \div 1000) % 10),
       Digit((n \div 100) % 10), Digit((n \div 10) % 10), Digit(n % 10) >>

\* datetime.isoformat(): MM:SS, and .ffffff only when microsecond is not 0
\* (characters as their code points; ':' is 58, '.' is 46)
isoformat(dt) ==
    TwoDigits(dt.minute) \o <<58>> \o TwoDigits(dt.second)
      \o (IF dt.microsecond = 0 THEN <<>> ELSE <<46>> \o SixDigits(dt.microsecond))

\* str < str
RECURSIVE StrLess(_, _)
StrLess(a, b) ==
    IF b = <<>> THEN FALSE
    ELSE IF a = <<>> THEN TRUE
    ELSE IF Head(a) # Head(b) THEN Head(a) < Head(b)
    ELSE StrLess(Tail(a), Tail(b))

\* the place of x in a list kept in descending key order: behind every entry
\* whose key is not smaller (the sort is stable)
RECURSIVE InsertDescending(_, _)
InsertDescending(x, list) ==
    IF list = <<>> THEN <<x>>
    ELSE IF StrLess(Head(list).created, x.created) THEN <<x>> \o list
    ELSE <<Head(list)>> \o InsertDescending(x, Tail(list))

\* sorted(videos, key=created, reverse=True)
RECURSIVE SortedReverse(_)
SortedReverse(videos) ==
    IF videos = <<>> THEN <<>>
    ELSE InsertDescending(videos[Len(videos)],
                          SortedReverse(SubSeq(videos, 1, Len(videos) - 1)))

\* a produced video is in the outputs directory (an earlier run left it)
PutFile ==
    /\ Cardinality(disk) < MaxFiles
    /\ \E ext \in {".mp4", ".avi"} :
         disk' = disk \cup {<<FileIds[Cardinality(disk) + 1], ext>>}
    /\ UNCHANGED <<alarm_active, loop, up, rsp, uuids, fed, ws, listing>>

\* the orders in which glob can yield a set of files
Orders(files) ==
    {o \in [1..Cardinality(files) -> files] :
        \A i, j \in DOMAIN o : i # j => o[i] # o[j]}

\* main.py 200-215, asked once in a run
ListVideos ==
    /\ loop = "free"
    /\ listing = NoListing
    /\ LET mp4 == {f \in disk : f[2] = ".mp4"}
       IN  \E glob \in Orders(mp4), st_ctime \in [mp4 -> Stamps] :
             LET videos ==
                     [i \in DOMAIN glob |->
                         [ filename |-> glob[i],
                           created |-> isoformat(st_ctime[glob[i]]),
                           download_url |-> <<"outputs">> \o glob[i],
                           ctime |-> st_ctime[glob[i]] ]]
             IN  listing' = [ total_videos |-> Len(videos),
                              videos |-> SortedReverse(videos) ]
    /\ UNCHANGED <<alarm_active, loop, up, rsp, disk, uuids, fed, ws>>

ListNext ==
    \/ PutFile
    \/ ListVideos

ListSpec == Init /\ [][ListNext]_vars

Next ==
    \E r \in Requests :
        \/ Submit(r)
        \/ Enter(r)
        \/ Save(r)
        \/ OpenCapture(r)
        \/ OpenWriter(r)
        \/ ReadFrame(r)
        \/ Predict(r)
        \/ WriteFrame(r)
        \/ Release(r)
        \/ Verify(r)
        \/ Respond(r)
        \/ Except(r)
        \/ Collect(r)

Spec == Init /\ [][Next]_vars

\* a step of a handler, as opposed to a step of a client
HandlerStep ==
    \E r \in Requests :
        \/ Enter(r) \/ Save(r) \/ OpenCapture(r) \/ OpenWriter(r) \/ ReadFrame(r)
        \/ Predict(r) \/ WriteFrame(r) \/ Release(r) \/ Verify(r)
        \/ Respond(r) \/ Except(r)

\* the event loop runs every coroutine that is ready; clients are free to
\* stop sending
FairSpec == Spec /\ WF_vars(HandlerStep)

\* ================================================================= claims
Active(r) == up[r].pc \in {"read", "predict", "write", "release", "verify", "respond"}

Returned(r) == up[r].pc = "respond"

\* C1: when upload_video starts its processing (before the file is saved,
\* before detect_video has opened the writer) alarm_active is false, whatever
\* earlier requests left in it.
C1_AlarmFalseAtStart ==
    \A r \in Requests :
        up[r].pc \in {"save", "open", "codec"} => alarm_active = FALSE

\* a request starts its processing after an earlier one left the flag set
C1_Witness ==
    \E r \in Requests : up[r].pc = "save" /\ up[r].entry_alarm

\* C2: for a video in which no detection of any frame has a violation label,
\* detect_video returns violation_frames = 0, every per-class counter 0,
\* violation_count = 0, violations_detected false, and the alarm callback was
\* never called, however many other detections the frames hold.
C2_NoViolationNoCount ==
    \A r \in Requests :
        (Returned(r) /\ \A c \in {"NO-Hardhat", "NO-Mask", "NO-Safety Vest"} :
                            up[r].seen[c] = 0)
        => /\ up[r].violation_frames = 0
           /\ \A c \in DOMAIN up[r].violation_stats : up[r].violation_stats[c] = 0
           /\ up[r].total_violations = 0
           /\ up[r].violation_detected = FALSE
           /\ up[r].alarm_calls = 0

\* a two-frame video with ordinary detections only has been processed
C2_Witness ==
    \E r \in Requests :
        /\ Returned(r)
        /\ up[r].nread >= 2
        /\ up[r].seen["Hardhat"] >= 2
        /\ \A c \in {"NO-Hardhat", "NO-Mask", "NO-Safety Vest"} : up[r].seen[c] = 0

\* C3: is_violation is true for exactly NO-Hardhat, NO-Mask and NO-Safety
\* Vest, and each per-class counter is incremented once per reported
\* detection of its class, so it equals the number of detections of that
\* class over the frames processed so far.
C3_StatsCountDetections ==
    /\ \A c \in ClassNames :
          is_violation(c) <=> c \in {"NO-Hardhat", "NO-Mask", "NO-Safety Vest"}
    /\ \A r \in Requests :
          Active(r) =>
            /\ \A c \in {"NO-Hardhat", "NO-Mask", "NO-Safety Vest"} :
                  up[r].violation_stats[c] = up[r].seen[c]
            /\ up[r].total_violations =
                  up[r].seen["NO-Hardhat"] + up[r].seen["NO-Mask"]
                    + up[r].seen["NO-Safety Vest"]

\* one frame reported NO-Hardhat twice and the counter stands at two
C3_Witness ==
    \E r \in Requests :
        /\ up[r].pc = "write"
        /\ up[r].boxes = <<"NO-Hardhat", "NO-Hardhat">>
        /\ up[r].violation_stats["NO-Hardhat"] = 2
        /\ up[r].nread = 1

\* C4: when detect_video returns, frames_processed is the number of frames
\* read before the first failed read, and that many annotated frames were
\* written, one per read frame and in read order.
C4_FramesReadWrittenCounted ==
    \A r \in Requests :
        Returned(r) =>
            /\ up[r].frame_count = up[r].nread
            /\ Len(up[r].written) = up[r].nread
            /\ \A i \in DOMAIN up[r].written :
                  /\ up[r].written[i].src = i - 1
                  /\ up[r].written[i].label = i - 1

\* two frames were read, the first of them without any violation
C4_Witness ==
    \E r \in Requests :
        /\ Returned(r)
        /\ up[r].nread = 2
        /\ Len(up[r].written) = 2
        /\ up[r].written[1].banner = {}

\* C7: an upload ends in a success response or in a 500 error response with
\* the exception message, never both; an unreadable source, no codec that
\* opens, or a missing output file end in the error response, and a success
\* response is returned only when the output file exists.
C7_SuccessOrError ==
    \A r \in Requests :
        up[r].pc = "done" =>
            /\ \/ rsp[r].status = "success" /\ rsp[r].code = 200
               \/ /\ rsp[r].status = "error"
                  /\ rsp[r].code = 500
                  /\ rsp[r].message = Message(up[r].fault)
            /\ up[r].fault # "none" => rsp[r].status = "error"
            /\ rsp[r].status = "success" => PathName(rsp[r].output_path) \in disk

\* one request failed on a missing output file while another succeeded
C7_Witness ==
    \E r, q \in Requests :
        /\ up[r].pc = "done" /\ rsp[r].status = "error" /\ up[r].fault = "no_output"
        /\ up[q].pc = "done" /\ rsp[q].status = "success"

Mismatch(r) ==
    /\ rsp[r].status = "success"
    /\ rsp[r].alarm_triggered # rsp[r].violations_detected

InFlight(r) == up[r].pc \notin {"idle", "done"}

C10_OutputFileIsWrittenFile ==
    \A r \in Requests :
        rsp[r].status = "success" =>
            /\ rsp[r].output_file = PathName(rsp[r].output_path)
            /\ rsp[r].download_url = <<"outputs">> \o PathName(rsp[r].output_path)
            /\ rsp[r].output_file \in disk

Undecodable(data) == StripPrefix(data) \in {"bad_base64", "not_image"}

\* message i has been dealt with: the handler is past it
Settled(i) == i < Len(ws.got) \/ ws.pc \in {"receive", "closed"}

RepliesTo(i) == {j \in DOMAIN ws.replies : ws.replies[j].id = i}

\* C5: a message whose payload cannot be decoded gets no reply of any kind,
\* neither a frame nor an error, and the connection stays open: the handler
\* is back at receiving and ends only when the client disconnects.
C5_UndecodableDropped ==
    /\ \A i \in DOMAIN ws.got : Undecodable(ws.got[i]) => RepliesTo(i) = {}
    /\ \A j \in DOMAIN ws.replies : ws.replies[j].kind = "frame"
    /\ ws.pc = "send" => ~Undecodable(ws.got[Len(ws.got)])
    /\ ws.pc = "closed" => ws.gone /\ ws.inbox = <<>>
    /\ \A i \in DOMAIN ws.got :
          (Undecodable(ws.got[i]) /\ Settled(i)) =>
              \E d \in DOMAIN ws.dropped :
                  ws.dropped[d] = [id |-> i, why |-> StripPrefix(ws.got[i])]

\* both kinds of undecodable payload were dropped, the socket is open, and
\* the decodable message after them has its reply
C5_Witness ==
    /\ Len(ws.got) = 3
    /\ StripPrefix(ws.got[1]) = "bad_base64"
    /\ StripPrefix(ws.got[2]) = "not_image"
    /\ ws.replies = <<[id |-> 3, kind |-> "frame"]>>
    /\ ws.pc = "receive"
    /\ ~ws.gone

\* C9 as stated: at most one frame in flight, no more replies than messages,
\* replies in the order of their messages, and every decodable message gets
\* exactly one reply.
C9_EveryDecodableReplied ==
    /\ Len(ws.replies) <= Len(ws.got)
    /\ \A j, k \in DOMAIN ws.replies : j < k => ws.replies[j].id < ws.replies[k].id
    /\ \A i \in DOMAIN ws.got :
          (~Undecodable(ws.got[i]) /\ Settled(i)) => Cardinality(RepliesTo(i)) = 1

\* C9 amended: at most one frame in flight (message k+1 is received only
\* when message k has been replied to or given up), no more replies than
\* messages, replies in the order of their messages, and a decodable message
\* gets exactly one reply unless its detection, encoding or send raises, in
\* which case it gets none.
C9_OneInFlightInOrder ==
    /\ Len(ws.replies) + Len(ws.dropped) =
          Len(ws.got) - (IF ws.pc \in {"process", "send"} THEN 1 ELSE 0)
    /\ Len(ws.replies) <= Len(ws.got)
    /\ \A j \in DOMAIN ws.replies : ws.replies[j].id \in DOMAIN ws.got
    /\ \A j, k \in DOMAIN ws.replies : j < k => ws.replies[j].id < ws.replies[k].id
    /\ \A i \in DOMAIN ws.got :
          (~Undecodable(ws.got[i]) /\ Settled(i)) =>
              \/ Cardinality(RepliesTo(i)) = 1
              \/ /\ RepliesTo(i) = {}
                 /\ \E d \in DOMAIN ws.dropped :
                       /\ ws.dropped[d].id = i
                       /\ ws.dropped[d].why \in {"raised", "send_failed"}

\* three decodable messages: the second was given up on an exception, the
\* first and the third have their replies, in order
C9_Witness ==
    /\ Len(ws.got) = 3
    /\ \A i \in 1..3 : ~Undecodable(ws.got[i])
    /\ ws.replies = <<[id |-> 1, kind |-> "frame"], [id |-> 3, kind |-> "frame"]>>
    /\ ws.dropped = <<[id |-> 2, why |-> "raised"]>>

\* a is not later than b
NotLater(a, b) ==
    \/ a.minute < b.minute
    \/ a.minute = b.minute /\ a.second < b.second
    \/ a.minute = b.minute /\ a.second = b.second /\ a.microsecond <= b.microsecond

====
